---- MODULE Spec2Model ----
(***************************************************************************)
(* Techmeme digest bot (index.js): configuration gate, headline            *)
(* extraction with a fallback selector, post-processing of the model's     *)
(* text for Slack, and the orchestration of one run.                       *)
(*                                                                         *)
(* Strings whose characters matter (hrefs, headline texts, the model's     *)
(* output) are sequences of one-character strings, so that startsWith,     *)
(* trim, length and the regular expressions are computed character by      *)
(* character as the JavaScript does.                                       *)
(*                                                                         *)
(* index.js ends with a second section (lines 345-397) that lists the      *)
(* model catalog; it declares GEMINI_API_KEY and genAI again, from the same*)
(* environment, and is read here as evaluated after main() is called:      *)
(* catalog is the position of its listAvailableModels().                   *)
(***************************************************************************)
EXTENDS Integers, Sequences, FiniteSets, TLC

VARIABLES env, pc, exitCode, clients, calls, log, data, items, content, rawText, summary,
          posted, catalog

vars == <<env, pc, exitCode, clients, calls, log, data, items, content, rawText, summary,
         posted, catalog>>

(***************************************************************************)
(* Bounds of the model and constants of the program                        *)
(***************************************************************************)

\* longest document enumerated element by element
MaxDocLen == 3

\* long documents repeat a two-element pattern MaxItems-1 .. MaxItems+MaxExtra times
MaxExtra == 1

\* raw model outputs are concatenations of at most MaxTokens tokens
MaxTokens == 4

\* index.js:95 and :117, `if (items.length >= 15) return;`
MaxItems == 15

\* index.js:123, `text.length > 20`
MinFallbackLen == 20

(***************************************************************************)
(* Character strings                                                       *)
(***************************************************************************)

Rep(c, n) == [i \in 1..n |-> c]

\* JavaScript white space, as matched by trim() and by \s
WhiteSpace == {" ", "\n", "\t"}

StartsWith(s, p) == Len(s) >= Len(p) /\ SubSeq(s, 1, Len(p)) = p

RECURSIVE TrimStart(_)
TrimStart(s) ==
    IF s = <<>> THEN <<>>
    ELSE IF Head(s) \in WhiteSpace THEN TrimStart(Tail(s))
    ELSE s

RECURSIVE TrimEnd(_)
TrimEnd(s) ==
    IF s = <<>> THEN <<>>
    ELSE IF s[Len(s)] \in WhiteSpace THEN TrimEnd(SubSeq(s, 1, Len(s) - 1))
    ELSE s

\* String.prototype.trim
Trim(s) == TrimEnd(TrimStart(s))

\* 'https://techmeme.com', the origin prepended at index.js:104 and :125
Origin == <<"h", "t", "t", "p", "s", ":", "/", "/", "t", "e", "c", "h", "m", "e", "m", "e", ".", "c", "o", "m">>

Http == <<"h", "t", "t", "p", ":", "/", "/">>

Https == <<"h", "t", "t", "p", "s", ":", "/", "/">>

(***************************************************************************)
(* The parsed document: its elements in document order.  An element has a  *)
(* tag and a class, its text content, its first descendant <a> (own) and   *)
(* its nearest ancestor <a> (anc).                                         *)
(***************************************************************************)

NoLink == [exists |-> FALSE, hasHref |-> FALSE, href |-> <<>>]

BareLink == [exists |-> TRUE, hasHref |-> FALSE, href |-> <<>>]

Link(h) == [exists |-> TRUE, hasHref |-> TRUE, href |-> h]

Elem(tag, class, text, own, anc) ==
    [tag |-> tag, class |-> class, text |-> text, own |-> own, anc |-> anc]

Undefined == [def |-> FALSE, val |-> <<>>]

\* $link.attr('href'): undefined for an empty selection or a missing attribute
Attr(link) ==
    IF link.exists /\ link.hasHref THEN [def |-> TRUE, val |-> link.href]
    ELSE Undefined

\* JavaScript truthiness of a string-or-undefined value
Truthy(v) == v.def /\ v.val # <<>>

\* $el.find('a').first()
FindFirstA(el) == el.own

\* $el.closest('a')
ClosestA(el) == el.anc

MatchesII(el) == el.class = "ii"

MatchesStrong(el) == el.tag = "strong"

\* index.js:103-105 and :124-126
NormalizeBroken(url) == Origin \o <<"/">> \o url

NormalizeUrl(url) ==
    IF StartsWith(url, <<"/">>) THEN Origin \o url ELSE url

\* the callback of $('.ii').each, index.js:94-108
PrimaryCallbackNoTrim(acc, el) ==
    IF Len(acc) >= MaxItems THEN acc
    ELSE LET text == el.text
             url  == Attr(FindFirstA(el))
         IN  IF text # <<>> /\ Truthy(url)
             THEN Append(acc, [text |-> text, url |-> NormalizeUrl(url.val)])
             ELSE acc

PrimaryCallback(acc, el) ==
    IF Len(acc) >= MaxItems THEN acc
    ELSE LET text == Trim(el.text)
             url  == Attr(FindFirstA(el))
         IN  IF text # <<>> /\ Truthy(url)
             THEN Append(acc, [text |-> text, url |-> NormalizeUrl(url.val)])
             ELSE acc

\* the callback of $('strong').each, index.js:116-129
FallbackCallbackAtLeast(acc, el) ==
    IF Len(acc) >= MaxItems THEN acc
    ELSE LET text == Trim(el.text)
             link == IF FindFirstA(el).exists THEN FindFirstA(el) ELSE ClosestA(el)
             url  == Attr(link)
         IN  IF Len(text) >= MinFallbackLen /\ Truthy(url)
             THEN Append(acc, [text |-> text, url |-> NormalizeUrl(url.val)])
             ELSE acc

FallbackCallback(acc, el) ==
    IF Len(acc) >= MaxItems THEN acc
    ELSE LET text == Trim(el.text)
             link == IF FindFirstA(el).exists THEN FindFirstA(el) ELSE ClosestA(el)
             url  == Attr(link)
         IN  IF Len(text) > MinFallbackLen /\ Truthy(url)
             THEN Append(acc, [text |-> text, url |-> NormalizeUrl(url.val)])
             ELSE acc

RECURSIVE PrimaryEach(_, _)
PrimaryEach(els, acc) ==
    IF els = <<>> THEN acc
    ELSE PrimaryEach(Tail(els),
                     IF MatchesII(Head(els)) THEN PrimaryCallback(acc, Head(els)) ELSE acc)

RECURSIVE FallbackEach(_, _)
FallbackEach(els, acc) ==
    IF els = <<>> THEN acc
    ELSE FallbackEach(Tail(els),
                      IF MatchesStrong(Head(els)) THEN FallbackCallback(acc, Head(els)) ELSE acc)

\* index.js:91-130: the items and whether the fallback strategy ran
ExtractAlwaysFallback(doc) ==
    LET primary == PrimaryEach(doc, <<>>)
    IN  [items |-> FallbackEach(doc, primary), fallback |-> TRUE]

ExtractItems(doc) ==
    LET primary == PrimaryEach(doc, <<>>)
    IN  IF Len(primary) = 0
        THEN [items |-> FallbackEach(doc, primary), fallback |-> TRUE]
        ELSE [items |-> primary, fallback |-> FALSE]

(***************************************************************************)
(* Post-processing of the model's text, index.js:209-220                   *)
(***************************************************************************)

\* [^\s\)\]] : the characters that end a URL match
UrlStop == WhiteSpace \cup {")", "]"}

ReadMore == <<"|", "r", "e", "a", "d", " ", "m", "o", "r", "e", ">">>

\* text.replace(/\*\*/g, '*'), index.js:210
RECURSIVE ReplaceDoubleStar(_)
ReplaceDoubleStar(s) ==
    IF s = <<>> THEN <<>>
    ELSE IF StartsWith(s, <<"*", "*">>)
         THEN <<"*">> \o ReplaceDoubleStar(SubSeq(s, 3, Len(s)))
         ELSE <<Head(s)>> \o ReplaceDoubleStar(Tail(s))

\* triple asterisks removed instead of replaced by one
RECURSIVE ReplaceTripleStarRemoves(_)
ReplaceTripleStarRemoves(s) ==
    IF s = <<>> THEN <<>>
    ELSE IF StartsWith(s, <<"*", "*", "*">>)
         THEN ReplaceTripleStarRemoves(SubSeq(s, 4, Len(s)))
         ELSE <<Head(s)>> \o ReplaceTripleStarRemoves(Tail(s))

\* text.replace(/\*\*\*/g, '*'), index.js:213
RECURSIVE ReplaceTripleStar(_)
ReplaceTripleStar(s) ==
    IF s = <<>> THEN <<>>
    ELSE IF StartsWith(s, <<"*", "*", "*">>)
         THEN <<"*">> \o ReplaceTripleStar(SubSeq(s, 4, Len(s)))
         ELSE <<Head(s)>> \o ReplaceTripleStar(Tail(s))

\* the length of the longest prefix of s without a character of UrlStop
RECURSIVE RunLen(_)
RunLen(s) ==
    IF s = <<>> \/ Head(s) \in UrlStop THEN 0 ELSE 1 + RunLen(Tail(s))

\* the length of the match of /https?:\/\/[^\s\)\]]+/ at the start of s, 0 if none
UrlMatchLen(s) ==
    LET scheme == IF StartsWith(s, Https) THEN Len(Https)
                  ELSE IF StartsWith(s, Http) THEN Len(Http)
                  ELSE 0
        body   == IF scheme = 0 THEN 0 ELSE RunLen(SubSeq(s, scheme + 1, Len(s)))
    IN  IF body = 0 THEN 0 ELSE scheme + body

\* text.replace(/https?:\/\/[^\s\)\]]+/g, url => `<${url}|read more>`), index.js:218-220
RECURSIVE WrapUrls(_)
WrapUrls(s) ==
    IF s = <<>> THEN <<>>
    ELSE LET n == UrlMatchLen(s)
         IN  IF n > 0
             THEN <<"<">> \o SubSeq(s, 1, n) \o ReadMore \o WrapUrls(SubSeq(s, n + 1, Len(s)))
             ELSE <<Head(s)>> \o WrapUrls(Tail(s))

\* index.js:197-224, the text returned for the raw text of the response
PostProcess(raw) == WrapUrls(ReplaceTripleStar(ReplaceDoubleStar(raw)))

(***************************************************************************)
(* Inputs: elements, documents, raw model outputs                          *)
(***************************************************************************)

HrefRootA == <<"/", "a">>

HrefRootS == <<"/", "s">>

HrefAbsolute == <<"h", "t", "t", "p", ":", "/", "/", "x", "/", "c">>

HrefRelative == <<"a", ".", "h", "t", "m", "l">>

\* a headline one character longer than the fallback threshold
LongText == <<"H">> \o Rep("x", MinFallbackLen)

\* a text of exactly the fallback threshold
ThresholdText == <<"S">> \o Rep("x", MinFallbackLen - 1)

\* the same text with surrounding white space: longer than the threshold before trim()
PaddedThresholdText == <<" ">> \o ThresholdText \o <<"\n">>

IIElements ==
    { Elem("div", "ii", <<"A">>, Link(HrefRootA), NoLink),
      Elem("div", "ii", <<"B">>, Link(HrefAbsolute), NoLink),
      Elem("div", "ii", <<" ", "C", "\n">>, Link(HrefRelative), NoLink),
      Elem("div", "ii", <<" ", "\t">>, Link(HrefRootA), NoLink),
      Elem("div", "ii", <<"D">>, NoLink, Link(HrefRootA)),
      Elem("div", "ii", <<"E">>, Link(<<>>), NoLink) }

StrongElements ==
    { Elem("strong", "", LongText, Link(HrefRootS), NoLink),
      Elem("strong", "", LongText \o <<"!">>, NoLink, Link(HrefAbsolute)),
      Elem("strong", "", ThresholdText, Link(HrefRootS), NoLink),
      Elem("strong", "", PaddedThresholdText, Link(HrefRootS), NoLink),
      Elem("strong", "", LongText, NoLink, NoLink),
      Elem("strong", "", LongText, BareLink, Link(HrefRootA)) }

Elements == IIElements \cup StrongElements

RECURSIVE SeqsUpTo(_, _)
SeqsUpTo(S, n) ==
    IF n = 0 THEN {<<>>}
    ELSE LET prev == SeqsUpTo(S, n - 1)
         IN  prev \cup {Append(s, x) : s \in prev, x \in S}

RECURSIVE Repeat(_, _)
Repeat(p, n) == IF n = 0 THEN <<>> ELSE p \o Repeat(p, n - 1)

ShortDocs == SeqsUpTo(Elements, MaxDocLen)

LongDocs ==
    {Repeat(<<a, b>>, n) : a \in Elements, b \in Elements,
                           n \in (MaxItems - 1)..(MaxItems + MaxExtra)}

Docs == ShortDocs \cup LongDocs

ExampleRaw ==
    <<"*", "*", "T", "i", "t", "l", "e", "*", "*", " ", "i", "n", "f", "o", " ",
      "h", "t", "t", "p", ":", "/", "/", "e", "x", "a", "m", "p", "l", "e", ".",
      "c", "o", "m", "/", "s", "t", "o", "r", "y">>

Tokens == { <<"*">>, <<"*", "*">>, Http, Https, <<"a">>, <<" ">>, <<")">>, <<"]">> }

RECURSIVE Concats(_)
Concats(n) ==
    IF n = 0 THEN {<<>>}
    ELSE LET prev == Concats(n - 1)
         IN  prev \cup {r \o tok : r \in prev, tok \in Tokens}

Raws == Concats(MaxTokens) \cup {ExampleRaw}

(***************************************************************************)
(* The extractor applied to a parsed document (index.js:88-143)            *)
(***************************************************************************)

NoEnv == [k \in {"GEMINI_API_KEY", "SLACK_BOT_TOKEN", "SLACK_CHANNEL_ID"} |-> [def |-> TRUE, val |-> <<"k">>]]

InitExtract ==
    /\ data \in Docs
    /\ pc = "parsed"
    /\ items = <<>>
    /\ log = <<>>
    /\ env = NoEnv
    /\ exitCode = <<>>
    /\ clients = {}
    /\ calls = <<>>
    /\ rawText = <<>>
    /\ summary = <<>>
    /\ posted = <<>>
    /\ content = <<>>
    /\ catalog = "idle"

Extract ==
    /\ pc = "parsed"
    /\ LET r == ExtractItems(data)
       IN  /\ items' = r.items
           /\ log' = IF r.fallback THEN <<"fallback">> ELSE <<>>
    /\ pc' = "extracted"
    /\ UNCHANGED <<env, exitCode, clients, calls, data, rawText, summary, posted, content, catalog>>

NextExtract == Extract

SpecExtract == InitExtract /\ [][NextExtract]_vars

(***************************************************************************)
(* The post-processing applied to a raw model output (index.js:197-224)    *)
(***************************************************************************)

InitFormat ==
    /\ rawText \in Raws
    /\ pc = "raw"
    /\ summary = <<>>
    /\ data = <<>>
    /\ items = <<>>
    /\ log = <<>>
    /\ env = NoEnv
    /\ exitCode = <<>>
    /\ clients = {}
    /\ calls = <<>>
    /\ posted = <<>>
    /\ content = <<>>
    /\ catalog = "idle"

Format ==
    /\ pc = "raw"
    /\ summary' = PostProcess(rawText)
    /\ pc' = "formatted"
    /\ UNCHANGED <<env, exitCode, clients, calls, log, data, items, rawText, posted, content, catalog>>

NextFormat == Format

SpecFormat == InitFormat /\ [][NextFormat]_vars

(***************************************************************************)
(* One run of index.js.  pc is the position of main(): "load" before the   *)
(* module is evaluated, "awaitGet", "awaitGenerate" and "awaitPost" while  *)
(* the call of that stage is in flight, "returned" when main() has         *)
(* resolved, "exited" when the process has ended.  calls lists the         *)
(* outbound calls issued, log the diagnostics and stage events in order,   *)
(* posted the messages handed to chat.postMessage.                         *)
(***************************************************************************)

EnvNames == {"GEMINI_API_KEY", "SLACK_BOT_TOKEN", "SLACK_CHANNEL_ID"}

\* process.env.X: undefined, the empty string, or a value
EnvValues ==
    {Undefined, [def |-> TRUE, val |-> <<>>], [def |-> TRUE, val |-> <<"k">>],
     [def |-> TRUE, val |-> <<"c">>]}

\* the responses of the aggregator a run is driven with
PipelineDocs ==
    { <<>>,
      <<Elem("div", "ii", <<" ", "\t">>, Link(HrefRootA), NoLink),
        Elem("strong", "", ThresholdText, Link(HrefRootS), NoLink)>>,
      <<Elem("div", "ii", <<"A">>, Link(HrefRootA), NoLink),
        Elem("div", "ii", <<"B">>, Link(HrefAbsolute), NoLink),
        Elem("strong", "", LongText, Link(HrefRootS), NoLink)>>,
      <<Elem("div", "ii", <<"E">>, Link(<<>>), NoLink),
        Elem("strong", "", LongText, Link(HrefRootS), NoLink)>>,
      <<Elem("strong", "", LongText \o <<"!">>, NoLink, Link(HrefAbsolute))>>,
      <<Elem("div", "ii", <<"T", "o", "p", "\n", "s", "t", "o", "r", "y">>, Link(HrefRootA), NoLink),
        Elem("div", "ii", <<"B">>, Link(HrefAbsolute), NoLink)>>,
      Repeat(<<Elem("div", "ii", <<"A">>, Link(HrefRootA), NoLink),
               Elem("div", "ii", <<"B">>, Link(HrefAbsolute), NoLink)>>, MaxItems) }

\* the texts of the model a run is driven with
PipelineRaws == { <<>>, ExampleRaw, <<"*", "*", "*">>, <<"a", " ">> \o Https \o <<"a", ")">> }

\* new Date().toLocaleDateString('en-US', {weekday, year, month, day})
Dates ==
    { <<"F", "r", "i", "d", "a", "y", ",", " ", "N", "o", "v", "e", "m", "b", "e", "r",
        " ", "6", ",", " ", "2", "0", "2", "6">>,
      <<"M", "o", "n", "d", "a", "y", ",", " ", "M", "a", "y", " ", "4", ",", " ",
        "2", "0", "2", "6">> }

\* index.js:254
Header(date) ==
    <<"*", "T", "e", "c", "h", "m", "e", "m", "e", " ", "T", "o", "p", " ", "1", "0",
      " ", "D", "i", "g", "e", "s", "t", " ", "-", " ">>
    \o date \o
    <<"*", " ", ":", "n", "e", "w", "s", "p", "a", "p", "e", "r", ":", "\n", "\n">>

\* index.js:38, `!GEMINI_API_KEY || !SLACK_TOKEN || !SLACK_CHANNEL`
MissingConfigTwoOfThree(e) ==
    ~Truthy(e["GEMINI_API_KEY"]) \/ ~Truthy(e["SLACK_BOT_TOKEN"])

MissingConfig(e) ==
    \/ ~Truthy(e["GEMINI_API_KEY"])
    \/ ~Truthy(e["SLACK_BOT_TOKEN"])
    \/ ~Truthy(e["SLACK_CHANNEL_ID"])

Init ==
    /\ env \in [EnvNames -> EnvValues]
    /\ pc = "load"
    /\ exitCode = <<>>
    /\ clients = {}
    /\ calls = <<>>
    /\ log = <<>>
    /\ data = <<>>
    /\ items = <<>>
    /\ rawText = <<>>
    /\ summary = <<>>
    /\ posted = <<>>
    /\ content = <<>>
    /\ catalog = "idle"

\* index.js:38-45: the gate fails, process.exit(1)
ConfigGateExit ==
    /\ pc = "load"
    /\ MissingConfig(env)
    /\ log' = log \o <<"config.error", "process.exit">>
    /\ exitCode' = <<1>>
    /\ pc' = "exited"
    /\ UNCHANGED <<env, clients, calls, data, items, rawText, summary, posted, content, catalog>>

\* index.js:47-59 and 343, 290-300, 79-84: the gate passes, the clients are
\* constructed, main() runs up to the await of axios.get; then index.js:345-397:
\* the key is present, listAvailableModels() runs up to the await of fetch
Startup ==
    /\ pc = "load"
    /\ ~MissingConfig(env)
    /\ clients' = {"genAI", "slackClient"}
    /\ calls' = Append(calls, "GET")
    /\ log' = log \o <<"validated", "clients", "main.start", "get.issued", "catalog.issued">>
    /\ pc' = "awaitGet"
    /\ catalog' = "inflight"
    /\ UNCHANGED <<env, exitCode, data, items, rawText, summary, posted, content>>

\* index.js:366-389: the catalog is returned and printed
CatalogOk ==
    /\ catalog = "inflight"
    /\ pc \in {"awaitGet", "awaitGenerate", "awaitPost", "returned"}
    /\ catalog' = "done"
    /\ log' = Append(log, "catalog.listed")
    /\ UNCHANGED <<env, pc, exitCode, clients, calls, data, items, content, rawText, summary, posted>>

\* index.js:391-394: the catalog call fails, the error is printed and dropped
CatalogFail ==
    /\ catalog = "inflight"
    /\ pc \in {"awaitGet", "awaitGenerate", "awaitPost", "returned"}
    /\ catalog' = "done"
    /\ log' = Append(log, "catalog.error")
    /\ UNCHANGED <<env, pc, exitCode, clients, calls, data, items, content, rawText, summary, posted>>

\* String(n) for n >= 0
RECURSIVE ToStr(_)
ToStr(n) ==
    LET digit(d) == <<"0", "1", "2", "3", "4", "5", "6", "7", "8", "9">>[d + 1]
    IN  IF n < 10 THEN <<digit(n)>> ELSE ToStr(n \div 10) \o <<digit(n % 10)>>

\* Array.prototype.join
RECURSIVE Join(_, _)
Join(parts, sep) ==
    IF parts = <<>> THEN <<>>
    ELSE IF Len(parts) = 1 THEN parts[1]
    ELSE parts[1] \o sep \o Join(Tail(parts), sep)

\* an entry numbered with the index of map instead of index + 1
RenderEntryZeroBased(item, index) ==
    ToStr(index) \o <<".", " ">> \o item.text
        \o <<"\n", " ", " ", " ", "U", "R", "L", ":", " ">> \o item.url

\* index.js:309, `${index + 1}. ${item.text}\n   URL: ${item.url}`
RenderEntry(item, index) ==
    ToStr(index + 1) \o <<".", " ">> \o item.text
        \o <<"\n", " ", " ", " ", "U", "R", "L", ":", " ">> \o item.url

\* index.js:308-310, items.map(...).join('\n\n')
RenderContent(its) ==
    Join([i \in 1..Len(its) |-> RenderEntry(its[i], i - 1)], <<"\n", "\n">>)

\* a missing await on summarizeWithGemini: the post is issued with the model call
FetchOkNoAwait(d) ==
    /\ pc = "awaitGet"
    /\ data' = d
    /\ items' = ExtractItems(d).items
    /\ content' = RenderContent(ExtractItems(d).items)
    /\ calls' = calls \o <<"generateContent", "postMessage">>
    /\ log' = log \o <<"get.returned", "extracted", "content.formatted",
                       "generate.issued", "post.issued">>
    /\ pc' = "awaitPost"
    /\ UNCHANGED <<env, exitCode, clients, rawText, summary, posted, catalog>>

\* the check of index.js:302-304 left out
FetchOkNoEmptyCheck(d) ==
    /\ pc = "awaitGet"
    /\ data' = d
    /\ LET r == ExtractItems(d)
       IN  /\ items' = r.items
           /\ content' = RenderContent(r.items)
           /\ calls' = Append(calls, "generateContent")
           /\ log' = log \o <<"get.returned">>
                         \o (IF r.fallback THEN <<"fallback">> ELSE <<>>)
                         \o <<"extracted", "content.formatted", "generate.issued">>
           /\ pc' = "awaitGenerate"
           /\ exitCode' = exitCode
    /\ UNCHANGED <<env, clients, rawText, summary, posted, catalog>>

\* index.js:84-143 and 300-314, 166-195: the GET returns d, the items are
\* extracted; with no item main() throws and the run exits with 1, otherwise
\* the content is rendered and main() runs up to the await of generateContent
FetchOk(d) ==
    /\ pc = "awaitGet"
    /\ data' = d
    /\ LET r == ExtractItems(d)
           seen == log \o <<"get.returned">>
                       \o (IF r.fallback THEN <<"fallback">> ELSE <<>>)
                       \o <<"extracted">>
       IN  /\ items' = r.items
           /\ IF Len(r.items) = 0
              THEN /\ log' = seen \o <<"empty.thrown", "workflow.failed", "process.exit">>
                   /\ exitCode' = <<1>>
                   /\ pc' = "exited"
                   /\ calls' = calls
                   /\ content' = content
              ELSE /\ log' = seen \o <<"content.formatted", "generate.issued">>
                   /\ content' = RenderContent(r.items)
                   /\ calls' = Append(calls, "generateContent")
                   /\ pc' = "awaitGenerate"
                   /\ exitCode' = exitCode
    /\ UNCHANGED <<env, clients, rawText, summary, posted, catalog>>

\* the GET is tried again after a failure
FetchFailRetries ==
    /\ pc = "awaitGet"
    /\ Len(calls) < Len(<<"GET", "GET", "GET">>)
    /\ log' = log \o <<"get.failed", "fetch.error", "get.issued">>
    /\ calls' = Append(calls, "GET")
    /\ UNCHANGED <<env, pc, exitCode, clients, data, items, content, rawText, summary, posted, catalog>>

\* the error is thrown again without the diagnostic of the stage
FetchFailSilent ==
    /\ pc = "awaitGet"
    /\ log' = log \o <<"get.failed", "workflow.failed", "process.exit">>
    /\ exitCode' = <<1>>
    /\ pc' = "exited"
    /\ UNCHANGED <<env, clients, calls, data, items, rawText, summary, posted, content, catalog>>

\* index.js:144-151 and 329-336: the GET fails
FetchFail ==
    /\ pc = "awaitGet"
    /\ log' = log \o <<"get.failed", "fetch.error", "workflow.failed", "process.exit">>
    /\ exitCode' = <<1>>
    /\ pc' = "exited"
    /\ UNCHANGED <<env, clients, calls, data, items, rawText, summary, posted, content, catalog>>

\* the header and the body joined by a single line break
GenerateOkOneNewline(raw, date) ==
    /\ pc = "awaitGenerate"
    /\ rawText' = raw
    /\ summary' = PostProcess(raw)
    /\ posted' = Append(posted, [channel |-> env["SLACK_CHANNEL_ID"].val,
                                 text    |-> SubSeq(Header(date), 1, Len(Header(date)) - 1)
                                                \o PostProcess(raw),
                                 mrkdwn  |-> TRUE])
    /\ calls' = Append(calls, "postMessage")
    /\ log' = log \o <<"generate.returned", "formatted", "post.issued">>
    /\ pc' = "awaitPost"
    /\ UNCHANGED <<env, exitCode, clients, data, items, content, catalog>>

\* index.js:195-224 and 314-317, 243-264: the model returns raw, the text is
\* post-processed, and main() runs up to the await of chat.postMessage
GenerateOk(raw, date) ==
    /\ pc = "awaitGenerate"
    /\ rawText' = raw
    /\ summary' = PostProcess(raw)
    /\ posted' = Append(posted, [channel |-> env["SLACK_CHANNEL_ID"].val,
                                 text    |-> Header(date) \o PostProcess(raw),
                                 mrkdwn  |-> TRUE])
    /\ calls' = Append(calls, "postMessage")
    /\ log' = log \o <<"generate.returned", "formatted", "post.issued">>
    /\ pc' = "awaitPost"
    /\ UNCHANGED <<env, exitCode, clients, data, items, content, catalog>>

\* an error handler that posts what it has instead of giving up
GenerateFailPostsAnyway ==
    /\ pc = "awaitGenerate"
    /\ posted' = Append(posted, [channel |-> env["SLACK_CHANNEL_ID"].val,
                                 text    |-> <<>>,
                                 mrkdwn  |-> TRUE])
    /\ calls' = Append(calls, "postMessage")
    /\ log' = log \o <<"generate.failed", "summarize.error", "post.issued">>
    /\ pc' = "awaitPost"
    /\ UNCHANGED <<env, exitCode, clients, data, items, rawText, summary, content, catalog>>

\* index.js:225-231 and 329-336: the model call fails
GenerateFail ==
    /\ pc = "awaitGenerate"
    /\ log' = log \o <<"generate.failed", "summarize.error", "workflow.failed", "process.exit">>
    /\ exitCode' = <<1>>
    /\ pc' = "exited"
    /\ UNCHANGED <<env, clients, calls, data, items, rawText, summary, posted, content, catalog>>

\* index.js:266-268 and 319-327: the post is acknowledged, main() resolves
PostOk ==
    /\ pc = "awaitPost"
    /\ log' = log \o <<"post.returned", "workflow.completed">>
    /\ pc' = "returned"
    /\ UNCHANGED <<env, exitCode, clients, calls, data, items, rawText, summary, posted, content, catalog>>

\* a handler that reports the failure and lets main() resolve
PostFailResolves ==
    /\ pc = "awaitPost"
    /\ log' = log \o <<"post.failed", "post.error", "workflow.failed">>
    /\ pc' = "returned"
    /\ UNCHANGED <<env, exitCode, clients, calls, data, items, rawText, summary, posted, content, catalog>>

\* index.js:269-276 and 329-336: the post fails
PostFail ==
    /\ pc = "awaitPost"
    /\ log' = log \o <<"post.failed", "post.error", "workflow.failed", "process.exit">>
    /\ exitCode' = <<1>>
    /\ pc' = "exited"
    /\ UNCHANGED <<env, clients, calls, data, items, rawText, summary, posted, content, catalog>>

\* a handle that stays open keeps the process alive after main() has resolved
EventLoopNeverDrains ==
    /\ pc = "returned"
    /\ UNCHANGED vars

\* index.js:343 and 397: main() has resolved and the catalog listing has
\* ended, nothing is pending, the process ends with 0
EventLoopDrained ==
    /\ pc = "returned"
    /\ catalog = "done"
    /\ exitCode' = <<0>>
    /\ pc' = "exited"
    /\ UNCHANGED <<env, clients, calls, log, data, items, rawText, summary, posted, content, catalog>>

Next ==
    \/ ConfigGateExit
    \/ Startup
    \/ CatalogOk
    \/ CatalogFail
    \/ \E d \in PipelineDocs : FetchOk(d)
    \/ FetchFail
    \/ \E raw \in PipelineRaws : \E date \in Dates : GenerateOk(raw, date)
    \/ GenerateFail
    \/ PostOk
    \/ PostFail
    \/ EventLoopDrained

Spec == Init /\ [][Next]_vars

\* every pending call returns or fails, and the runtime takes the next step
FairSpec == Spec /\ WF_vars(Next)

(***************************************************************************)
(* Properties of the extractor, stated on the document and the result      *)
(***************************************************************************)

Range(s) == {s[i] : i \in DOMAIN s}

Take(s, n) == SubSeq(s, 1, IF Len(s) < n THEN Len(s) ELSE n)

Contains(s, u) == \E k \in 1..(Len(s) - Len(u) + 1) : SubSeq(s, k, k + Len(u) - 1) = u

Ink(s) == {i \in DOMAIN s : s[i] \notin WhiteSpace}

\* the text between the first and the last character that is not white space
TrimmedText(s) ==
    IF Ink(s) = {} THEN <<>>
    ELSE SubSeq(s, CHOOSE i \in Ink(s) : \A j \in Ink(s) : i <= j,
                   CHOOSE i \in Ink(s) : \A j \in Ink(s) : i >= j)

HasHref(l) == l.exists /\ l.hasHref /\ Len(l.href) > 0

\* a primary-selector element that has both text and an href
PrimaryEligible(el) == el.class = "ii" /\ Ink(el.text) # {} /\ HasHref(el.own)

\* the link of an emphasis element: its own embedded link, else its nearest ancestor link
LinkOf(el) == IF el.own.exists THEN el.own ELSE el.anc

\* an emphasis element with more than 20 characters of trimmed text and a link
FallbackEligible(el) ==
    el.tag = "strong" /\ Len(TrimmedText(el.text)) > 20 /\ HasHref(LinkOf(el))

HasPrimary == \E i \in DOMAIN data : PrimaryEligible(data[i])

\* the elements the result is expected to hold, in document order, at most 15
Accepted ==
    IF HasPrimary THEN Take(SelectSeq(data, PrimaryEligible), 15)
    ELSE Take(SelectSeq(data, FallbackEligible), 15)

SourceHref(el) == IF HasPrimary THEN el.own.href ELSE LinkOf(el).href

\* scheme "://" host
IsAbsoluteUri(u) ==
    \E k \in 2..(Len(u) - 3) :
        /\ SubSeq(u, k, k + 2) = <<":", "/", "/">>
        /\ \A j \in 1..(k - 1) : u[j] \notin {"/", ":", ".", "?", "#", " "}
        /\ u[k + 3] \notin {"/", "?", "#", " "}

\* the items are those of the first 15 eligible primary elements, in document order
PrimaryOrderAndCap ==
    (pc = "extracted" /\ HasPrimary) =>
        /\ Len(items) = Len(Accepted)
        /\ \A i \in DOMAIN items : items[i].text = TrimmedText(Accepted[i].text)

\* C6: when the document has a primary-selector element with text and href, the
\* result is the first 15 such elements in document order and every url of the
\* result is an absolute URI, whatever the href was.
C6_PrimaryAbsolute ==
    (pc = "extracted" /\ HasPrimary) =>
        /\ PrimaryOrderAndCap
        /\ \A i \in DOMAIN items : IsAbsoluteUri(items[i].url)

C8_Fallback ==
    pc = "extracted" =>
        /\ "fallback" \in Range(log) => ~HasPrimary
        /\ Len(items) = Len(Accepted)
        /\ \A i \in DOMAIN items :
              /\ items[i].text = TrimmedText(Accepted[i].text)
              /\ items[i].url \in {SourceHref(Accepted[i]), Origin \o SourceHref(Accepted[i])}
              /\ Accepted[i].tag = "strong" <=> "fallback" \in Range(log)
              /\ "fallback" \in Range(log) => Len(items[i].text) > 20

C8_Witness ==
    /\ pc = "extracted"
    /\ "fallback" \in Range(log)
    /\ Len(items) = 15
    /\ Len(SelectSeq(data, FallbackEligible)) > 15
    /\ \E i \in DOMAIN data :
          data[i].tag = "strong" /\ Len(TrimmedText(data[i].text)) = 20 /\ HasHref(LinkOf(data[i]))

(***************************************************************************)
(* Properties of the post-processing                                       *)
(***************************************************************************)

\* C9: the post-processed text has no two adjacent '*' characters.
C9_NoAdjacentStars ==
    pc = "formatted" =>
        \A i \in 1..(Len(summary) - 1) : ~(summary[i] = "*" /\ summary[i + 1] = "*")

\* a scheme followed by at least one character of a URL, at position i of s
UrlAt(s, i) ==
    \E sch \in {Http, Https} :
        /\ i + Len(sch) <= Len(s)
        /\ SubSeq(s, i, i + Len(sch) - 1) = sch
        /\ s[i + Len(sch)] \notin UrlStop

\* a URL token starts at i: a URL is there and i is inside no earlier one
TokenStart(s, i) ==
    /\ UrlAt(s, i)
    /\ \A j \in 1..(i - 1) : UrlAt(s, j) => \E k \in j..(i - 1) : s[k] \in UrlStop

\* the token runs to the character before the next white space, ')' or ']'
TokenEnd(s, i) ==
    CHOOSE e \in i..Len(s) :
        /\ \A k \in i..e : s[k] \notin UrlStop
        /\ e = Len(s) \/ s[e + 1] \in UrlStop

UrlTokens(s) == {SubSeq(s, i, TokenEnd(s, i)) : i \in {j \in DOMAIN s : TokenStart(s, j)}}

\* every URL token of the text is wrapped as <URL|read more>
NoBareUrl(s) ==
    \A i \in DOMAIN s : TokenStart(s, i) =>
        /\ i > 1
        /\ s[i - 1] = "<"
        /\ \E e \in i..Len(s) :
              /\ \A k \in i..e : s[k] # "|"
              /\ SubSeq(s, e + 1, e + Len(ReadMore)) = ReadMore

ExampleFormatted ==
    <<"*", "T", "i", "t", "l", "e", "*", " ", "i", "n", "f", "o", " ", "<",
      "h", "t", "t", "p", ":", "/", "/", "e", "x", "a", "m", "p", "l", "e", ".",
      "c", "o", "m", "/", "s", "t", "o", "r", "y",
      "|", "r", "e", "a", "d", " ", "m", "o", "r", "e", ">">>

ExampleHolds == (pc = "formatted" /\ rawText = ExampleRaw) => summary = ExampleFormatted

WrappedTokensRemain ==
    pc = "formatted" =>
        /\ NoBareUrl(summary)
        /\ \A u \in UrlTokens(ReplaceTripleStar(ReplaceDoubleStar(rawText))) :
              Contains(summary, <<"<">> \o u \o ReadMore)

\* C10: every URL token of the raw text appears in the result wrapped as
\* <URL|read more> with exactly that URL, no bare URL remains, and the example
\* of the specification is rewritten as stated.
C10_UrlRewriting ==
    pc = "formatted" =>
        /\ \A u \in UrlTokens(rawText) : Contains(summary, <<"<">> \o u \o ReadMore)
        /\ NoBareUrl(summary)
        /\ rawText = ExampleRaw => summary = ExampleFormatted

\* the text with every run of '*' shortened to one '*'
RunsCollapsed(s) == SelectSeq([i \in DOMAIN s |-> <<s[i], i = 1 \/ s[i - 1] # "*">>],
                              LAMBDA c : c[1] # "*" \/ c[2])

OneStarRuns(s) == [i \in DOMAIN RunsCollapsed(s) |-> RunsCollapsed(s)[i][1]]

\* the text without the '<' and '|read more>' put around URLs; the raw texts
\* hold neither '<' nor '|'
RECURSIVE WithoutWrappers(_)
WithoutWrappers(s) ==
    IF s = <<>> THEN <<>>
    ELSE IF Head(s) = "<" THEN WithoutWrappers(Tail(s))
    ELSE IF StartsWith(s, ReadMore) THEN WithoutWrappers(SubSeq(s, Len(ReadMore) + 1, Len(s)))
    ELSE <<Head(s)>> \o WithoutWrappers(Tail(s))

HasUrl(s) == \E i \in DOMAIN s : UrlAt(s, i)

\* C16: but for the lengths of the runs of '*' and the wrappers around URLs the
\* result is the raw text, character by character in the same order; a raw text
\* with neither '**' nor a URL is returned as it is.
C16_Frame ==
    pc = "formatted" =>
        /\ OneStarRuns(WithoutWrappers(summary)) = OneStarRuns(rawText)
        /\ (~Contains(rawText, <<"*", "*">>) /\ ~HasUrl(rawText)) => summary = rawText

C16_Witness ==
    /\ pc = "formatted"
    /\ Contains(rawText, <<"*", "*", "*">>)
    /\ HasUrl(rawText)
    /\ " " \in Range(rawText)
    /\ summary # rawText
    /\ OneStarRuns(WithoutWrappers(summary)) = OneStarRuns(rawText)

(***************************************************************************)
(* Properties of a run                                                     *)
(***************************************************************************)

Events == {log[i] : i \in DOMAIN log}

Issued == {calls[i] : i \in DOMAIN calls}

\* event a is logged before event b
Before(a, b) == \E i \in DOMAIN log : \E j \in DOMAIN log : i < j /\ log[i] = a /\ log[j] = b

\* one of the three required settings is absent or empty
ConfigMissing == \E k \in EnvNames : ~env[k].def \/ Len(env[k].val) = 0

\* C1: when a required setting is absent or empty, no client is constructed and no
\* outbound call is issued, and the only step of the run is the exit with status 1.
C1_ConfigGate ==
    ConfigMissing =>
        /\ clients = {}
        /\ calls = <<>>
        /\ posted = <<>>
        /\ catalog = "idle"
        /\ pc \in {"load", "exited"}
        /\ pc = "load" => (ENABLED ConfigGateExit) /\ ~(ENABLED Startup)
        /\ pc = "exited" => exitCode = <<1>>

C1_Witness ==
    /\ pc = "exited"
    /\ exitCode = <<1>>
    /\ Truthy(env["GEMINI_API_KEY"])
    /\ Truthy(env["SLACK_BOT_TOKEN"])
    /\ env["SLACK_CHANNEL_ID"] = [def |-> TRUE, val |-> <<>>]
    /\ calls = <<>>

\* C2: the model call is issued only after the GET has returned and the items
\* are extracted, the post only after the model call has returned and its text
\* is post-processed; the calls are issued in the order GET, model, post.
C2_StageOrder ==
    /\ "generateContent" \in Issued <=> "generate.issued" \in Events
    /\ "postMessage" \in Issued <=> "post.issued" \in Events
    /\ "generate.issued" \in Events =>
          /\ Before("get.issued", "get.returned")
          /\ Before("get.returned", "extracted")
          /\ Before("extracted", "generate.issued")
    /\ "post.issued" \in Events =>
          /\ Before("generate.issued", "generate.returned")
          /\ Before("generate.returned", "formatted")
          /\ Before("formatted", "post.issued")
    /\ \E n \in 0..3 : calls = SubSeq(<<"GET", "generateContent", "postMessage">>, 1, n)

C2_Witness ==
    /\ pc = "awaitPost"
    /\ calls = <<"GET", "generateContent", "postMessage">>
    /\ Before("formatted", "post.issued")

\* C3: a message is handed to the channel only in a run whose fetch, extraction
\* and summarization succeeded; after a failed fetch, an empty extraction or a
\* failed model call nothing is posted.
C3_AllOrNothing ==
    /\ (posted # <<>> \/ "postMessage" \in Issued) =>
          /\ "get.returned" \in Events
          /\ Len(items) > 0
          /\ "generate.returned" \in Events
    /\ ({"get.failed", "empty.thrown", "generate.failed"} \cap Events # {}) =>
          /\ posted = <<>>
          /\ "postMessage" \notin Issued

C3_Witness ==
    /\ pc = "exited"
    /\ "generate.failed" \in Events
    /\ Len(items) > 0
    /\ posted = <<>>

\* C4: a run ends with status 0 exactly when the gate passed and fetch,
\* summarization and publish succeeded; every validation or stage failure ends
\* it with status 1.
C4_ExitStatus ==
    /\ pc = "exited" =>
          /\ exitCode \in {<<0>>, <<1>>}
          /\ exitCode = <<0>> <=>
                /\ ~ConfigMissing
                /\ "get.returned" \in Events
                /\ Len(items) > 0
                /\ "generate.returned" \in Events
                /\ "post.returned" \in Events
    /\ ({"config.error", "get.failed", "empty.thrown", "generate.failed", "post.failed"}
            \cap Events # {}) =>
          /\ pc = "exited"
          /\ exitCode = <<1>>

C4_Witness ==
    /\ pc = "exited"
    /\ exitCode = <<1>>
    /\ "post.failed" \in Events
    /\ Len(posted) = 1

\* C5: the empty-result error is raised exactly when neither strategy finds an
\* item; when it is raised no model call is made, and with an item it is not raised.
C5_EmptyResult ==
    "get.returned" \in Events =>
        /\ "empty.thrown" \in Events <=>
              /\ ~HasPrimary
              /\ ~\E i \in DOMAIN data : FallbackEligible(data[i])
        /\ "empty.thrown" \in Events =>
              /\ "generateContent" \notin Issued
              /\ "fallback" \in Events
              /\ pc = "exited"
        /\ Len(items) > 0 => "empty.thrown" \notin Events

C5_Witness ==
    /\ "empty.thrown" \in Events
    /\ Len(data) > 0
    /\ calls = <<"GET">>
    /\ exitCode = <<1>>

\* the fixed parts of the header of the digest
DigestLabel ==
    <<"*", "T", "e", "c", "h", "m", "e", "m", "e", " ", "T", "o", "p", " ", "1", "0",
      " ", "D", "i", "g", "e", "s", "t", " ", "-", " ">>

NewspaperMark == <<"*", " ", ":", "n", "e", "w", "s", "p", "a", "p", "e", "r", ":">>

\* C11: publish hands exactly one message to the configured channel id, with
\* mrkdwn on, whose text is the header line with the long-form date, a blank
\* line and then the formatted body unchanged.
C11_PublishComposition ==
    /\ Len(posted) <= 1
    /\ "postMessage" \in Issued <=> Len(posted) = 1
    /\ Len(posted) = 1 =>
          /\ posted[1].channel = env["SLACK_CHANNEL_ID"].val
          /\ posted[1].mrkdwn = TRUE
          /\ \E date \in Dates :
                posted[1].text = DigestLabel \o date \o NewspaperMark \o <<"\n", "\n">> \o summary

C11_Witness ==
    /\ pc = "awaitPost"
    /\ Len(posted) = 1
    /\ Len(summary) > 0
    /\ env["SLACK_CHANNEL_ID"] # env["SLACK_BOT_TOKEN"]
    /\ posted[1].channel = env["SLACK_CHANNEL_ID"].val

\* C12: each of the three outbound calls is issued at most once, and once one of
\* them has failed the process has ended and issues nothing more.
C12_NoRetry ==
    /\ \A i \in DOMAIN calls : \A j \in DOMAIN calls : i # j => calls[i] # calls[j]
    /\ \A i \in DOMAIN log : \A j \in DOMAIN log :
          (i # j /\ log[i] \in {"get.issued", "generate.issued", "post.issued", "catalog.issued"})
              => log[i] # log[j]
    /\ "get.failed" \in Events => calls = <<"GET">>
    /\ "generate.failed" \in Events => calls = <<"GET", "generateContent">>
    /\ "post.failed" \in Events => calls = <<"GET", "generateContent", "postMessage">>
    /\ ({"get.failed", "generate.failed", "post.failed"} \cap Events # {}) =>
          /\ pc = "exited"
          /\ ~(ENABLED Next)

C12_Witness ==
    /\ pc = "exited"
    /\ "generate.failed" \in Events
    /\ calls = <<"GET", "generateContent">>
    /\ catalog = "inflight"

\* the outbound calls that have been issued and have neither returned nor failed
InFlight ==
    IF pc = "exited" THEN {}
    ELSE (IF pc = "awaitGet" THEN {"GET"}
          ELSE IF pc = "awaitGenerate" THEN {"generateContent"}
          ELSE IF pc = "awaitPost" THEN {"postMessage"}
          ELSE {})
         \cup (IF catalog = "inflight" THEN {"models"} ELSE {})

C14_Termination == <>(pc = "exited" /\ exitCode \in {<<0>>, <<1>>})

C14_Witness ==
    /\ pc = "exited"
    /\ exitCode = <<0>>
    /\ "post.returned" \in Events
    /\ catalog = "done"

\* C15: a failed fetch, summarization or publish writes the diagnostic of its own
\* stage before the failure report of the orchestrator, and the exit with status 1
\* comes after both.
C15_ErrorReportOrder ==
    /\ \A p \in { <<"get.failed", "fetch.error">>,
                  <<"generate.failed", "summarize.error">>,
                  <<"post.failed", "post.error">> } :
          p[1] \in Events =>
              /\ Before(p[1], p[2])
              /\ Before(p[2], "workflow.failed")
              /\ Before("workflow.failed", "process.exit")
              /\ exitCode = <<1>>
    /\ ("workflow.failed" \in Events /\ "empty.thrown" \notin Events) =>
          {"fetch.error", "summarize.error", "post.error"} \cap Events # {}
    /\ exitCode = <<1>> => log[Len(log)] = "process.exit"

C15_Witness ==
    /\ "get.failed" \in Events
    /\ Before("fetch.error", "workflow.failed")
    /\ exitCode = <<1>>

\* the decimal numeral of an index of the extracted sequence
DecimalOf(i) ==
    << <<"1">>, <<"2">>, <<"3">>, <<"4">>, <<"5">>, <<"6">>, <<"7">>, <<"8">>, <<"9">>,
       <<"1", "0">>, <<"1", "1">>, <<"1", "2">>, <<"1", "3">>, <<"1", "4">>, <<"1", "5">> >>[i]

UrlLabel == <<" ", " ", " ", "U", "R", "L", ":", " ">>

\* the lines of a text
RECURSIVE SplitLines(_, _)
SplitLines(s, cur) ==
    IF s = <<>> THEN <<cur>>
    ELSE IF Head(s) = "\n" THEN <<cur>> \o SplitLines(Tail(s), <<>>)
    ELSE SplitLines(Tail(s), Append(cur, Head(s)))

\* per item a title line and a url line, with an empty line between the entries
RECURSIVE EntryLines(_, _)
EntryLines(its, i) ==
    IF i > Len(its) THEN <<>>
    ELSE (IF i > 1 THEN << <<>> >> ELSE <<>>)
         \o << DecimalOf(i) \o <<".", " ">> \o its[i].text, UrlLabel \o its[i].url >>
         \o EntryLines(its, i + 1)

\* per item the numeral, the title, a line break and the url line
RECURSIVE EntryText(_, _)
EntryText(its, i) ==
    IF i > Len(its) THEN <<>>
    ELSE (IF i > 1 THEN <<"\n", "\n">> ELSE <<>>)
         \o DecimalOf(i) \o <<".", " ">> \o its[i].text \o <<"\n">> \o UrlLabel \o its[i].url
         \o EntryText(its, i + 1)

\* C17 as stated: the text handed to the summarizer is, line by line, for each
\* item in order its number and full title on one line and its url on the next.
C17_NumberedLines ==
    "content.formatted" \in Events => SplitLines(content, <<>>) = EntryLines(items, 1)

\* C17 amended: the text handed to the summarizer is, for each item in order, its
\* number, its full title as extracted, a line break and the line with its url,
\* the entries separated by an empty line.
C17_RenderedEntries ==
    "content.formatted" \in Events => (Len(items) > 0 /\ content = EntryText(items, 1))

C17_Witness ==
    /\ pc = "awaitGenerate"
    /\ Len(items) = 2
    /\ "\n" \in Range(items[1].text)
    /\ content = EntryText(items, 1)

====
